---- MODULE Spec2Model ----
(***************************************************************************)
(* Model of src/claude.py, the BC FSR road segment merger.                 *)
(*                                                                         *)
(* main() checks that bc_roads.geojson exists, loads it, checks the two    *)
(* required columns, filters the FSR segments, writes an analysis file,    *)
(* merges the segments of every ROAD_NAME_FULL group with                  *)
(* shapely.ops.linemerge and saves one record per group.                   *)
(*                                                                         *)
(* Strings that the program inspects character by character (road names)   *)
(* are sequences of character codes; a null attribute is the one-element   *)
(* sequence <<-1>>.  A geometry is the sequence of its vertices; a vertex  *)
(* is a point of the x-axis, given by its x coordinate, so that the planar *)
(* length of a line is the sum of |x(i+1) - x(i)|.  A missing or empty     *)
(* geometry (the only line geometry with fewer than two vertices that a    *)
(* GeoDataFrame can hold) is the empty sequence.                           *)
(***************************************************************************)
EXTENDS Integers, Sequences, FiniteSets, TLC

VARIABLES
    fileExists,     \* Path("bc_roads.geojson").exists()
    fileColumns,    \* the columns of the file
    fileRecords,    \* the rows of the file, in file order
    pc,             \* position of main()
    gdf,            \* the loaded frame (rows)
    fsr_segments,   \* result of filter_fsr_segments
    segment_counts, \* result of explore_fsr_data, written to fsr_analysis.txt
    pending,        \* groups the loop of merge_fsr_segments has not visited yet
    merged_fsrs,    \* the list merge_fsr_segments appends to
    errors,         \* road names printed by "Error merging ..."
    summary,        \* the counts merge_fsr_segments prints
    outFile,        \* the rows written to bc_fsrs_merged.geojson
    result,         \* how main() ended
    log             \* the phases main() has completed, in order

vars == <<fileExists, fileColumns, fileRecords, pc, gdf, fsr_segments,
          segment_counts, pending, merged_fsrs, errors, summary, outFile,
          result, log>>

(***************************************************************************)
(* Bounds of the model.                                                    *)
(***************************************************************************)
NumPoints == 4
MaxSegs == 3
MaxRecs == 3

Points == 1..NumPoints

(***************************************************************************)
(* Attribute values.                                                       *)
(***************************************************************************)
NullName == <<-1>>
NameFSR == <<70, 83, 82>>          \* "FSR"
Namefsr == <<102, 115, 114>>       \* "fsr"
NameaFsR == <<97, 70, 115, 82>>    \* "aFsR"
NameFRS == <<70, 82, 83>>          \* "FRS"
PatFSR == <<70, 83, 82>>           \* the pattern 'FSR' of line 24

RequiredCols == {"ROAD_NAME_FULL", "ROAD_CLASS"}
AllCols == RequiredCols \cup {"geometry"}

NotWritten == [written |-> FALSE, rows |-> <<>>]
NoSummary == [total_original |-> 0, roads |-> 0]

(***************************************************************************)
(* Sequence helpers.                                                       *)
(***************************************************************************)
RECURSIVE SumSeq(_)
SumSeq(s) == IF s = <<>> THEN 0 ELSE Head(s) + SumSeq(Tail(s))

RECURSIVE Reverse(_)
Reverse(s) == IF s = <<>> THEN <<>> ELSE Append(Reverse(Tail(s)), Head(s))

Abs(x) == IF x < 0 THEN -x ELSE x

RECURSIVE SeqsUpTo(_, _)
SeqsUpTo(S, n) ==
    IF n = 0 THEN {<<>>}
    ELSE LET prev == SeqsUpTo(S, n - 1)
         IN  prev \cup {Append(s, x) : s \in {t \in prev : Len(t) = n - 1}, x \in S}

(***************************************************************************)
(* str.contains('FSR', case=False, na=False), line 24.                     *)
(***************************************************************************)
\* Mutant of Upper: a case-sensitive search.
Upper_Identity(c) == c

Upper(c) == IF c >= 97 /\ c <= 122 THEN c - 32 ELSE c

RECURSIVE MatchHere(_, _, _, _)
MatchHere(s, i, pat, k) ==
    IF k > Len(pat) THEN TRUE
    ELSE IF i + k - 1 > Len(s) THEN FALSE
    ELSE IF Upper(s[i + k - 1]) # Upper(pat[k]) THEN FALSE
    ELSE MatchHere(s, i, pat, k + 1)

RECURSIVE SearchFrom(_, _, _)
SearchFrom(s, i, pat) ==
    IF i + Len(pat) - 1 > Len(s) THEN FALSE
    ELSE IF MatchHere(s, i, pat, 1) THEN TRUE
    ELSE SearchFrom(s, i + 1, pat)

StrContainsNoCase(s, pat) ==
    IF s = NullName THEN FALSE ELSE SearchFrom(s, 1, pat)

resource_mask(r) == r.class = "resource"

fsr_mask(r) == StrContainsNoCase(r.name, PatFSR)

FilterPred(r) == resource_mask(r) /\ fsr_mask(r)

filter_fsr_segments(frame) == SelectSeq(frame, FilterPred)

(***************************************************************************)
(* groupby('ROAD_NAME_FULL'): the keys in sorted order (strings compare by *)
(* code point), each group the rows of that key in frame order.            *)
(***************************************************************************)
RECURSIVE LessFrom(_, _, _)
LessFrom(a, b, i) ==
    IF i > Len(a) THEN i <= Len(b)
    ELSE IF i > Len(b) THEN FALSE
    ELSE IF a[i] # b[i] THEN a[i] < b[i]
    ELSE LessFrom(a, b, i + 1)

LessName(a, b) == LessFrom(a, b, 1)

RECURSIVE SortNames(_)
SortNames(S) ==
    IF S = {} THEN <<>>
    ELSE LET m == CHOOSE x \in S : \A y \in S \ {x} : LessName(x, y)
         IN  <<m>> \o SortNames(S \ {m})

GroupKeys(frame) == SortNames({frame[i].name : i \in DOMAIN frame})

\* Mutant of GroupOf: road names grouped without regard to case.
GroupOf_NoCase(frame, key) ==
    SelectSeq(frame, LAMBDA r : [i \in DOMAIN r.name |-> Upper(r.name[i])]
                                  = [i \in DOMAIN key |-> Upper(key[i])])

GroupOf(frame, key) == SelectSeq(frame, LAMBDA r : r.name = key)

GroupSizes(frame) ==
    {<<k, Len(GroupOf(frame, k))>> : k \in {frame[i].name : i \in DOMAIN frame}}

(***************************************************************************)
(* Geometry: validity and planar length (geometry.length, line 92).        *)
(***************************************************************************)
IsValidGeom(g) == Len(g) >= 2

Length(g) ==
    IF Len(g) < 2 THEN 0
    ELSE SumSeq([i \in 1..(Len(g) - 1) |-> Abs(g[i + 1] - g[i])])

(***************************************************************************)
(* shapely.ops.linemerge (line 89), as GEOS's LineMerger computes it.      *)
(*                                                                         *)
(* linemerge first builds a MultiLineString of its arguments, which raises *)
(* for a missing or empty member.  The merger then makes every line with   *)
(* at least two distinct vertices an edge between its first and its last   *)
(* vertex (exact coordinate equality), starts an edge string at every node *)
(* whose degree is not 2, continues it through nodes of degree 2, and      *)
(* finally collects the rings that are left.  A directed edge is           *)
(* <<i, d>>: line i walked forward (d = TRUE) or backward.                 *)
(* GEOS orders the directed edges of a node by angle; the model orders     *)
(* them by line index, which decides only the order of the parts, the      *)
(* direction of a part walked as often backward as forward, and the        *)
(* vertex at which a ring starts.                                          *)
(***************************************************************************)
RECURSIVE RemoveRepeated(_)
RemoveRepeated(g) ==
    IF Len(g) <= 1 THEN g
    ELSE IF g[1] = g[2] THEN RemoveRepeated(Tail(g))
    ELSE <<g[1]>> \o RemoveRepeated(Tail(g))

IsEdge(g) == Len(RemoveRepeated(g)) > 1

NoEdge == <<0, TRUE>>

Sym(de) == <<de[1], ~de[2]>>

FromNode(geoms, de) ==
    IF de[2] THEN geoms[de[1]][1] ELSE geoms[de[1]][Len(geoms[de[1]])]

ToNode(geoms, de) == FromNode(geoms, Sym(de))

RECURSIVE OutEdgesFrom(_, _, _)
OutEdgesFrom(geoms, n, i) ==
    IF i > Len(geoms) THEN <<>>
    ELSE (IF IsEdge(geoms[i]) /\ FromNode(geoms, <<i, TRUE>>) = n
            THEN << <<i, TRUE>> >> ELSE <<>>)
         \o (IF IsEdge(geoms[i]) /\ FromNode(geoms, <<i, FALSE>>) = n
               THEN << <<i, FALSE>> >> ELSE <<>>)
         \o OutEdgesFrom(geoms, n, i + 1)

OutEdges(geoms, n) == OutEdgesFrom(geoms, n, 1)

Degree(geoms, n) == Len(OutEdges(geoms, n))

RECURSIVE SortPoints(_)
SortPoints(S) ==
    IF S = {} THEN <<>>
    ELSE LET m == CHOOSE x \in S : \A y \in S : x <= y
         IN  <<m>> \o SortPoints(S \ {m})

GraphNodes(geoms) ==
    SortPoints({FromNode(geoms, <<i, d>>) :
                   i \in {j \in DOMAIN geoms : IsEdge(geoms[j])}, d \in BOOLEAN})

GetNext(geoms, de) ==
    LET out == OutEdges(geoms, ToNode(geoms, de))
    IN  IF Len(out) # 2 THEN NoEdge
        ELSE IF out[1] = Sym(de) THEN out[2] ELSE out[1]

\* The one element of a singleton.  {F(x) : x \in {e}} fixes the value of
\* e before F uses it, as a local variable of the merger holds one value.
Only(S) == CHOOSE x \in S : TRUE

RECURSIVE BuildEdgeStringStartingWith(_, _, _, _)
BuildEdgeStringStartingWith(geoms, start, current0, es0) ==
    Only({LET es2 == Append(es, current)
              nxt == GetNext(geoms, current)
          IN  IF nxt = NoEdge \/ nxt = start THEN es2
              ELSE BuildEdgeStringStartingWith(geoms, start, nxt, es2)
          : current \in {current0}, es \in {es0}})

RECURSIVE BuildEdgeStringsStartingAt(_, _, _, _)
BuildEdgeStringsStartingAt(geoms, out0, k, st0) ==
    Only({IF k > Len(out) THEN st
          ELSE IF out[k][1] \in st.marked
                 THEN BuildEdgeStringsStartingAt(geoms, out, k + 1, st)
          ELSE Only({BuildEdgeStringsStartingAt(geoms, out, k + 1,
                         [marked |-> st.marked \cup {es[j][1] : j \in DOMAIN es},
                          strings |-> Append(st.strings, es)])
                     : es \in {BuildEdgeStringStartingWith(geoms, out[k], out[k], <<>>)}})
          : out \in {out0}, st \in {st0}})

RECURSIVE BuildEdgeStringsForNonDegree2Nodes(_, _, _, _)
BuildEdgeStringsForNonDegree2Nodes(geoms, nodes, j, st0) ==
    Only({IF j > Len(nodes) THEN st
          ELSE BuildEdgeStringsForNonDegree2Nodes(geoms, nodes, j + 1,
                   IF Degree(geoms, nodes[j]) # 2
                     THEN BuildEdgeStringsStartingAt(geoms, OutEdges(geoms, nodes[j]), 1, st)
                     ELSE st)
          : st \in {st0}})

RECURSIVE BuildEdgeStringsForUnprocessedNodes(_, _, _, _)
BuildEdgeStringsForUnprocessedNodes(geoms, nodes, j, st0) ==
    Only({IF j > Len(nodes) THEN st
          ELSE BuildEdgeStringsForUnprocessedNodes(geoms, nodes, j + 1,
                   IF Degree(geoms, nodes[j]) = 2
                     THEN BuildEdgeStringsStartingAt(geoms, OutEdges(geoms, nodes[j]), 1, st)
                     ELSE st)
          : st \in {st0}})

EdgeStringsOf(geoms, nodes) ==
    BuildEdgeStringsForUnprocessedNodes(geoms, nodes, 1,
        BuildEdgeStringsForNonDegree2Nodes(geoms, nodes, 1,
            [marked |-> {}, strings |-> <<>>])).strings

EdgeStrings(geoms0) ==
    Only({EdgeStringsOf(geoms, GraphNodes(geoms)) : geoms \in {geoms0}})

Directed(g, d) == IF d THEN g ELSE Reverse(g)

RECURSIVE AddNoRepeat(_, _)
AddNoRepeat(acc0, coords0) ==
    Only({IF coords = <<>> THEN acc
          ELSE IF acc # <<>> /\ acc[Len(acc)] = Head(coords)
                 THEN AddNoRepeat(acc, Tail(coords))
          ELSE AddNoRepeat(Append(acc, Head(coords)), Tail(coords))
          : acc \in {acc0}, coords \in {coords0}})

RECURSIVE EdgeStringCoords(_, _, _, _)
EdgeStringCoords(geoms, es, k, acc) ==
    IF k > Len(es) THEN acc
    ELSE EdgeStringCoords(geoms, es, k + 1,
             AddNoRepeat(acc, Directed(geoms[es[k][1]], es[k][2])))

EdgeStringToLine(geoms, es) ==
    LET forward == Cardinality({k \in DOMAIN es : es[k][2]})
        reverse == Len(es) - forward
    IN  Only({IF reverse > forward THEN Reverse(coords) ELSE coords
              : coords \in {EdgeStringCoords(geoms, es, 1, <<>>)}})

MergedLineStrings(geoms0) ==
    Only({[k \in DOMAIN ess |-> EdgeStringToLine(geoms, ess[k])]
          : geoms \in {geoms0}, ess \in {EdgeStrings(geoms0)}})

linemerge_raises(geometries) ==
    \E i \in DOMAIN geometries : ~IsValidGeom(geometries[i])

\* Mutant of linemerge: all vertices strung into one line.
RECURSIVE ConcatAll(_)
ConcatAll(geometries) ==
    IF geometries = <<>> THEN <<>> ELSE Head(geometries) \o ConcatAll(Tail(geometries))

linemerge_Concat(geometries) == <<RemoveRepeated(ConcatAll(geometries))>>

linemerge(geometries) == MergedLineStrings(geometries)

(***************************************************************************)
(* One iteration of the loop of merge_fsr_segments (lines 83-105): the     *)
(* record appended for a group, and whether the try block raises.          *)
(***************************************************************************)
\* Mutant of Geometries: the last row of the group is left out.
Geometries_ButLast(group) == [i \in 1..(Len(group) - 1) |-> group[i].geom]

Geometries(group) == [i \in DOMAIN group |-> group[i].geom]

\* Mutant of TotalLength: the length of the first row instead of the sum.
TotalLength_First(group) == Length(group[1].geom)

TotalLength(group) == SumSeq([i \in DOMAIN group |-> Length(group[i].geom)])

\* Mutant of GroupRaises: an invalid geometry is skipped without an error.
GroupRaises_Never(group) == FALSE

GroupRaises(group) == linemerge_raises(Geometries(group))

\* Mutant of MergedRecord: original_segments counts the merged parts.
MergedRecord_CountParts(road_name, group) ==
    [title |-> road_name,
     ROAD_NAME_FULL |-> road_name,
     ROAD_CLASS |-> "resource",
     original_segments |-> Len(linemerge(Geometries(group))),
     total_length_m |-> TotalLength(group),
     geometry |-> linemerge(Geometries(group))]

MergedRecord(road_name, group) ==
    [title |-> road_name,
     ROAD_NAME_FULL |-> road_name,
     ROAD_CLASS |-> "resource",
     original_segments |-> Len(group),
     total_length_m |-> TotalLength(group),
     geometry |-> linemerge(Geometries(group))]

\* Mutant of TotalOriginal: the number of records instead of the sum.
TotalOriginal_Records(merged) == Len(merged)

TotalOriginal(merged) ==
    SumSeq([i \in DOMAIN merged |-> merged[i].original_segments])

(***************************************************************************)
(* The inputs of a run: the file, its columns and its rows.  A row is      *)
(* [id, name, class, geom], id being its position in the file.             *)
(***************************************************************************)
MkRows(attrs) ==
    [i \in DOMAIN attrs |->
        [id |-> i, name |-> attrs[i][1], class |-> attrs[i][2], geom |-> attrs[i][3]]]

NoFile == [exists |-> FALSE, columns |-> {}, rows |-> <<>>]

BadColumnInputs ==
    {[exists |-> TRUE, columns |-> c, rows |-> <<>>] :
        c \in {{"ROAD_NAME_FULL", "geometry"}, {"ROAD_CLASS", "geometry"}, {"geometry"}}}

\* Rows of all kinds: matching and non-matching attributes, a few geometries.
PipelineGeoms == {<<>>, <<1, 2>>, <<2, 3>>, <<4, 2>>}

PipelineAttrs ==
    {<<n, "resource", g>> : n \in {NameFSR, Namefsr}, g \in PipelineGeoms}
    \cup {<<NameaFsR, "resource", <<1, 3, 2>>>>}
    \cup {<<NameFRS, "resource", <<1, 2>>>>, <<NullName, "resource", <<1, 2>>>>,
          <<NameFSR, "Resource", <<1, 2>>>>, <<NameaFsR, "local", <<1, 2>>>>}

PipelineInputs ==
    {NoFile} \cup BadColumnInputs
    \cup {[exists |-> TRUE, columns |-> AllCols, rows |-> MkRows(a)] :
             a \in SeqsUpTo(PipelineAttrs, MaxRecs)}

\* Rows of one road, with every two-vertex line over Points, zero-length
\* lines, lines with an interior vertex, a ring and a missing geometry.
NetworkGeoms ==
    {<<a, b>> : a \in Points, b \in Points}
    \cup {<<1, 3, 2>>, <<1, 2, 1>>, <<2, 2, 3>>, <<>>}

NetworkAttrs == {<<NameFSR, "resource", g>> : g \in NetworkGeoms}

NetworkInputs ==
    {NoFile} \cup BadColumnInputs
    \cup {[exists |-> TRUE, columns |-> AllCols, rows |-> MkRows(a)] :
             a \in SeqsUpTo(NetworkAttrs, MaxSegs)}

\* A smaller set of rows, for the runs checked to their end under fairness.
SmallAttrs ==
    {<<NameFSR, "resource", <<>>>>, <<NameFSR, "resource", <<1, 2>>>>,
     <<Namefsr, "resource", <<1, 2>>>>, <<Namefsr, "resource", <<2, 3>>>>,
     <<NameFRS, "resource", <<1, 2>>>>}

SmallInputs ==
    {NoFile} \cup BadColumnInputs
    \cup {[exists |-> TRUE, columns |-> AllCols, rows |-> MkRows(a)] :
             a \in SeqsUpTo(SmallAttrs, MaxRecs)}

InitWith(inputs) ==
    /\ \E inp \in inputs :
          /\ fileExists = inp.exists
          /\ fileColumns = inp.columns
          /\ fileRecords = inp.rows
    /\ pc = "start"
    /\ gdf = <<>>
    /\ fsr_segments = <<>>
    /\ segment_counts = {}
    /\ pending = <<>>
    /\ merged_fsrs = <<>>
    /\ errors = <<>>
    /\ summary = NoSummary
    /\ outFile = NotWritten
    /\ result = "running"
    /\ log = <<>>

Init == InitWith(PipelineInputs)

InitNetwork == InitWith(NetworkInputs)

InitSmall == InitWith(SmallInputs)

(***************************************************************************)
(* main(), lines 123-185.                                                  *)
(***************************************************************************)
Return(how) ==
    /\ pc' = "done"
    /\ result' = how

\* lines 126-131
CheckFile ==
    /\ pc = "start"
    /\ IF fileExists
         THEN pc' = "load" /\ result' = result
         ELSE Return("no_file")
    /\ UNCHANGED <<fileExists, fileColumns, fileRecords, gdf, fsr_segments,
                   segment_counts, pending, merged_fsrs, errors, summary,
                   outFile, log>>

\* lines 134-140
Load ==
    /\ pc = "load"
    /\ gdf' = fileRecords
    /\ pc' = "check_cols"
    /\ UNCHANGED <<fileExists, fileColumns, fileRecords, fsr_segments,
                   segment_counts, pending, merged_fsrs, errors, summary,
                   outFile, result, log>>

\* gpd.read_file raises: lines 181-185
LoadFails ==
    /\ pc = "load"
    /\ Return("exception")
    /\ UNCHANGED <<fileExists, fileColumns, fileRecords, gdf, fsr_segments,
                   segment_counts, pending, merged_fsrs, errors, summary,
                   outFile, log>>

\* lines 142-148
CheckColumns ==
    /\ pc = "check_cols"
    /\ LET missing_cols == RequiredCols \ fileColumns
       IN  IF missing_cols # {}
             THEN Return("missing_cols")
             ELSE pc' = "filter" /\ result' = result
    /\ UNCHANGED <<fileExists, fileColumns, fileRecords, gdf, fsr_segments,
                   segment_counts, pending, merged_fsrs, errors, summary,
                   outFile, log>>

\* lines 150-155, with filter_fsr_segments (lines 14-32)
Filter ==
    /\ pc = "filter"
    /\ fsr_segments' = filter_fsr_segments(gdf)
    /\ log' = Append(log, "filter")
    /\ IF Len(fsr_segments') = 0
         THEN Return("no_fsr")
         ELSE pc' = "explore" /\ result' = result
    /\ UNCHANGED <<fileExists, fileColumns, fileRecords, gdf, segment_counts,
                   pending, merged_fsrs, errors, summary, outFile>>

\* line 158, with explore_fsr_data (lines 34-73)
Explore ==
    /\ pc = "explore"
    /\ segment_counts' = GroupSizes(fsr_segments)
    /\ log' = Append(log, "analyse")
    /\ pc' = "merge_begin"
    /\ UNCHANGED <<fileExists, fileColumns, fileRecords, gdf, fsr_segments,
                   pending, merged_fsrs, errors, summary, outFile, result>>

\* open(output_file, 'w') of line 47 raises: lines 181-185
ExploreFails ==
    /\ pc = "explore"
    /\ Return("exception")
    /\ UNCHANGED <<fileExists, fileColumns, fileRecords, gdf, fsr_segments,
                   segment_counts, pending, merged_fsrs, errors, summary,
                   outFile, log>>

\* lines 77-83: the empty list and the groupby
MergeBegin ==
    /\ pc = "merge_begin"
    /\ merged_fsrs' = <<>>
    /\ pending' = GroupKeys(fsr_segments)
    /\ pc' = "merge_loop"
    /\ UNCHANGED <<fileExists, fileColumns, fileRecords, gdf, fsr_segments,
                   segment_counts, errors, summary, outFile, result, log>>

\* Mutant of MergeGroup: an error ends the loop (break for continue).
MergeGroup_Break ==
    /\ pc = "merge_loop"
    /\ pending # <<>>
    /\ LET road_name == Head(pending)
           group == GroupOf(fsr_segments, road_name)
           raised == GroupRaises(group)
       IN  /\ errors' = IF raised THEN Append(errors, road_name) ELSE errors
           /\ merged_fsrs' = IF raised THEN merged_fsrs
                             ELSE Append(merged_fsrs, MergedRecord(road_name, group))
           /\ pending' = IF raised THEN <<>> ELSE Tail(pending)
    /\ UNCHANGED <<fileExists, fileColumns, fileRecords, pc, gdf, fsr_segments,
                   segment_counts, summary, outFile, result, log>>

\* lines 83-105: one group
MergeGroup ==
    /\ pc = "merge_loop"
    /\ pending # <<>>
    /\ LET road_name == Head(pending)
           group == GroupOf(fsr_segments, road_name)
           raised == GroupRaises(group)
       IN  /\ errors' = IF raised THEN Append(errors, road_name) ELSE errors
           /\ merged_fsrs' = IF raised THEN merged_fsrs
                             ELSE Append(merged_fsrs, MergedRecord(road_name, group))
    /\ pending' = Tail(pending)
    /\ UNCHANGED <<fileExists, fileColumns, fileRecords, pc, gdf, fsr_segments,
                   segment_counts, summary, outFile, result, log>>

\* Mutant of MergeEnd: the empty list is not turned into None.
MergeEnd_NoGate ==
    /\ pc = "merge_loop"
    /\ pending = <<>>
    /\ log' = Append(log, "merge")
    /\ summary' = [total_original |-> TotalOriginal(merged_fsrs),
                   roads |-> Len(merged_fsrs)]
    /\ pc' = "save"
    /\ result' = result
    /\ UNCHANGED <<fileExists, fileColumns, fileRecords, gdf, fsr_segments,
                   segment_counts, pending, merged_fsrs, errors, outFile>>

\* lines 107-121 and the test of line 163
MergeEnd ==
    /\ pc = "merge_loop"
    /\ pending = <<>>
    /\ log' = Append(log, "merge")
    /\ IF merged_fsrs = <<>>
         THEN /\ Return("no_merge")
              /\ summary' = summary
         ELSE /\ summary' = [total_original |-> TotalOriginal(merged_fsrs),
                             roads |-> Len(merged_fsrs)]
              /\ pc' = "save"
              /\ result' = result
    /\ UNCHANGED <<fileExists, fileColumns, fileRecords, gdf, fsr_segments,
                   segment_counts, pending, merged_fsrs, errors, outFile>>

\* lines 164-179
Save ==
    /\ pc = "save"
    /\ outFile' = [written |-> TRUE, rows |-> merged_fsrs]
    /\ log' = Append(log, "save")
    /\ Return("saved")
    /\ UNCHANGED <<fileExists, fileColumns, fileRecords, gdf, fsr_segments,
                   segment_counts, pending, merged_fsrs, errors, summary>>

Next ==
    \/ CheckFile
    \/ Load
    \/ LoadFails
    \/ CheckColumns
    \/ Filter
    \/ Explore
    \/ ExploreFails
    \/ MergeBegin
    \/ MergeGroup
    \/ MergeEnd
    \/ Save

Spec == Init /\ [][Next]_vars

SpecNetwork == InitNetwork /\ [][Next]_vars

\* main() runs each of its steps to the end: no step waits for anything.
FairSpec == InitSmall /\ [][Next]_vars /\ WF_vars(Next)

(***************************************************************************)
(* Vocabulary of the properties.                                           *)
(***************************************************************************)
Range(s) == {s[i] : i \in DOMAIN s}

MergeStarted == pc \in {"merge_loop", "save"} \/ (pc = "done" /\ "merge" \in Range(log))

MergeFinished == pc = "save" \/ (pc = "done" /\ "merge" \in Range(log))

\* The groups the loop has visited, in the order it visited them.
Processed ==
    IF MergeStarted
      THEN LET keys == GroupKeys(fsr_segments)
           IN  SubSeq(keys, 1, Len(keys) - Len(pending))
      ELSE <<>>

RecordsFor(k) == SelectSeq(merged_fsrs, LAMBDA r : r.ROAD_NAME_FULL = k)

\* The rows of the file that pass the filter and carry road name k.
RowsOf(k) ==
    SelectSeq(fileRecords,
              LAMBDA r : r.class = "resource" /\ r.name = k)

GeomsOf(k) == [i \in DOMAIN RowsOf(k) |-> RowsOf(k)[i].geom]

AllValid(geoms) == \A i \in DOMAIN geoms : Len(geoms[i]) >= 2

\* Lines whose vertices do not all coincide.
Distinct2(g) == \E i \in DOMAIN g : \E j \in DOMAIN g : g[i] # g[j]

\* The parts emitted for road k: the parts of its record's geometry.
PartsFor(k) == IF RecordsFor(k) = <<>> THEN <<>> ELSE RecordsFor(k)[1].geometry

\* The segments each emitted part was built from.
StringsFor(k) == IF RecordsFor(k) = <<>> THEN <<>> ELSE EdgeStrings(GeomsOf(k))

CoverCount(ess, i) ==
    SumSeq([k \in DOMAIN ess |-> Cardinality({j \in DOMAIN ess[k] : ess[k][j][1] = i})])

\* How often the step between a and b occurs in the lines.
StepCount(lines, a, b) ==
    SumSeq([k \in DOMAIN lines |->
        Cardinality({i \in 1..(Len(lines[k]) - 1) :
            {lines[k][i], lines[k][i + 1]} = {a, b}})])

VerticesOf(lines) == UNION {Range(lines[k]) : k \in DOMAIN lines}

\* Number of ends of the lines that lie at node n.
EndsAt(lines, n) ==
    SumSeq([k \in DOMAIN lines |->
        (IF lines[k][1] = n THEN 1 ELSE 0)
        + (IF lines[k][Len(lines[k])] = n THEN 1 ELSE 0)])

\* Number of interior vertices of the lines that lie at node n.
InteriorAt(lines, n) ==
    SumSeq([k \in DOMAIN lines |->
        Cardinality({i \in 2..(Len(lines[k]) - 1) : lines[k][i] = n})])

\* The lines that take part in the merge, without their repeated vertices.
EdgeLines(geoms) ==
    LET es == SelectSeq(geoms, Distinct2)
    IN  [i \in DOMAIN es |-> RemoveRepeated(es[i])]

ChainNode(geoms, perm, orient, j) ==
    IF j = 0 THEN FromNode(geoms, <<perm[1], orient[1]>>)
    ELSE ToNode(geoms, <<perm[j], orient[j]>>)

IsChainOrder(geoms, perm, orient) ==
    /\ \A j \in 1..(Len(geoms) - 1) :
          ToNode(geoms, <<perm[j], orient[j]>>)
              = FromNode(geoms, <<perm[j + 1], orient[j + 1]>>)
    /\ \A i \in 0..Len(geoms) : \A j \in 0..Len(geoms) :
          i # j => ChainNode(geoms, perm, orient, i) # ChainNode(geoms, perm, orient, j)

RECURSIVE ChainVertices(_, _, _, _)
ChainVertices(geoms, perm, orient, j) ==
    IF j > Len(geoms) THEN <<>>
    ELSE Directed(geoms[perm[j]], orient[j]) \o ChainVertices(geoms, perm, orient, j + 1)

ChainOrders(geoms) ==
    {po \in Permutations(DOMAIN geoms) \X [DOMAIN geoms -> BOOLEAN] :
        IsChainOrder(geoms, po[1], po[2])}

(***************************************************************************)
(* C2: a processed group whose segments form a single unbranched chain, in *)
(* any input order and any direction of each segment, has one record whose *)
(* geometry is one path running from one chain end to the other through    *)
(* the segments' vertices in chain order, whose original_segments is the   *)
(* number of segments and whose total_length_m is the sum of their lengths.*)
(***************************************************************************)
C2_ChainMerge ==
    \A p \in DOMAIN Processed :
        LET k == Processed[p]
            geoms == GeomsOf(k)
        IN  AllValid(geoms) =>
              \A po \in ChainOrders(geoms) :
                 LET path == ChainVertices(geoms, po[1], po[2], 1)
                     line == RemoveRepeated(path)
                 IN  /\ Len(RecordsFor(k)) = 1
                     /\ PartsFor(k) \in {<<line>>, <<Reverse(line)>>}
                     /\ RecordsFor(k)[1].original_segments = Len(geoms)
                     /\ RecordsFor(k)[1].total_length_m
                           = SumSeq([i \in 1..(Len(path) - 1) |-> Abs(path[i + 1] - path[i])])

\* A chain of three segments that the file gives out of chain order and
\* with a segment against the chain's direction, merged into one path.
C2_Witness ==
    \E p \in DOMAIN Processed :
        LET k == Processed[p]
            geoms == GeomsOf(k)
        IN  /\ Len(geoms) = 3
            /\ AllValid(geoms)
            /\ ChainOrders(geoms) # {}
            /\ \A po \in ChainOrders(geoms) :
                  /\ po[1][2] # 2
                  /\ \E i \in 1..3 : \E j \in 1..3 : po[2][i] # po[2][j]
            /\ Len(PartsFor(k)) = 1
            /\ Len(PartsFor(k)[1]) >= 4

(***************************************************************************)
(* Junctions: a node at which three or more segment ends meet.             *)
(***************************************************************************)
Junctions(geoms) == {n \in VerticesOf(geoms) : Degree(geoms, n) >= 3}

\* Three segments that each have one end at n, so that n has degree 3.
ThreeMeetAt(geoms, n) ==
    /\ Len(geoms) = 3
    /\ Degree(geoms, n) = 3
    /\ \A i \in DOMAIN geoms :
          /\ n \in {geoms[i][1], geoms[i][Len(geoms[i])]}
          /\ geoms[i][1] # geoms[i][Len(geoms[i])]

FarEnds(geoms, n) ==
    {IF geoms[i][1] = n THEN geoms[i][Len(geoms[i])] ELSE geoms[i][1] : i \in DOMAIN geoms}

Matches(r) ==
    /\ r.class = "resource"
    /\ r.name # NullName
    /\ \E i \in 1..(Len(r.name) - 2) :
          /\ r.name[i] \in {70, 102}
          /\ r.name[i + 1] \in {83, 115}
          /\ r.name[i + 2] \in {82, 114}

MatchingRows == {i \in DOMAIN fileRecords : Matches(fileRecords[i])}

RoadNames == {fileRecords[i].name : i \in MatchingRows}

RowsNamed(k) == {i \in MatchingRows : fileRecords[i].name = k}

Fails(k) == \E i \in RowsNamed(k) : Len(fileRecords[i].geom) < 2

OkRoads == {k \in RoadNames : ~Fails(k)}

InputUsable == fileExists /\ RequiredCols \subseteq fileColumns

CountIn(seq, x) == Cardinality({i \in DOMAIN seq : seq[i] = x})

(***************************************************************************)
(* C4, as stated: the merge step emits one output record per merged path   *)
(* of a group, so a branching group yields more than one record.           *)
(***************************************************************************)
C4_RecordPerPath_AsStated ==
    \A p \in DOMAIN Processed :
        LET k == Processed[p]
        IN  ~Fails(k) => Len(RecordsFor(k)) = Len(MergedLineStrings(GeomsOf(k)))

(***************************************************************************)
(* C4, amended: the merge step emits exactly one output record per group   *)
(* that merges without error, whatever the number of merged paths; the     *)
(* record carries the group key (as title and as ROAD_NAME_FULL), the      *)
(* number of rows of the group, the sum of the rows' lengths and, as one   *)
(* geometry, all merged paths of the group.  No other record is emitted.   *)
(***************************************************************************)
C4_RecordPerGroup ==
    /\ \A p \in DOMAIN Processed :
          LET k == Processed[p]
              recs == RecordsFor(k)
          IN  IF Fails(k) THEN recs = <<>>
              ELSE /\ Len(recs) = 1
                   /\ recs[1].title = k
                   /\ recs[1].ROAD_CLASS = "resource"
                   /\ recs[1].original_segments = Cardinality(RowsNamed(k))
                   /\ recs[1].total_length_m
                         = SumSeq([i \in DOMAIN GeomsOf(k) |-> Length(GeomsOf(k)[i])])
                   /\ recs[1].geometry = MergedLineStrings(GeomsOf(k))
    /\ \A i \in DOMAIN merged_fsrs : merged_fsrs[i].ROAD_NAME_FULL \in Range(Processed)

\* A saved run with a branching road: one record whose geometry has three
\* parts.
C4_Witness ==
    /\ result = "saved"
    /\ \E i \in DOMAIN outFile.rows :
          /\ Len(outFile.rows[i].geometry) = 3
          /\ outFile.rows[i].original_segments = 3
          /\ Len(RecordsFor(outFile.rows[i].ROAD_NAME_FULL)) = 1

(***************************************************************************)
(* C5: when the loop is over, every group with a geometry that makes the   *)
(* merge raise has no output record and is reported once, the run went on  *)
(* to the groups after it, and the output records are exactly the records  *)
(* that the input without the rows of the failing groups produces.         *)
(***************************************************************************)
ExpectedRecords(frame) ==
    LET keys == GroupKeys(frame)
    IN  [i \in DOMAIN keys |-> MergedRecord(keys[i], GroupOf(frame, keys[i]))]

C5_FailureIsolation ==
    /\ MergeStarted => Len(errors) + Len(merged_fsrs) = Len(Processed)
    /\ MergeFinished =>
          LET bad == {k \in RoadNames : Fails(k)}
              rest == SelectSeq(fileRecords, LAMBDA r : Matches(r) /\ r.name \notin bad)
          IN  /\ Range(Processed) = RoadNames
              /\ Range(errors) = bad
              /\ \A k \in bad : CountIn(errors, k) = 1 /\ RecordsFor(k) = <<>>
              /\ merged_fsrs = ExpectedRecords(rest)
              /\ pc = "done" => result \in {"saved", "no_merge"}

\* The first group failed and a later group was merged and saved.
C5_Witness ==
    /\ result = "saved"
    /\ errors # <<>>
    /\ \A i \in DOMAIN outFile.rows :
          LessName(errors[1], outFile.rows[i].ROAD_NAME_FULL)

C8_FilterExact ==
    "filter" \in Range(log) =>
        /\ gdf = fileRecords
        /\ \A i \in DOMAIN fsr_segments : \A j \in DOMAIN fsr_segments :
              i < j => fsr_segments[i].id < fsr_segments[j].id
        /\ {fsr_segments[i].id : i \in DOMAIN fsr_segments} = MatchingRows
        /\ \A i \in DOMAIN fsr_segments :
              fsr_segments[i] = fileRecords[fsr_segments[i].id]

\* Rows 1 and 3 pass, row 2 does not; a passing name is not upper case.
C8_Witness ==
    /\ "filter" \in Range(log)
    /\ Len(gdf) = 3
    /\ Len(fsr_segments) = 2
    /\ fsr_segments[1].id = 1
    /\ fsr_segments[2].id = 3
    /\ \E i \in DOMAIN fsr_segments : fsr_segments[i].name \in {Namefsr, NameaFsR}
    /\ gdf[2].name = NameFSR

(***************************************************************************)
(* C9: bc_fsrs_merged.geojson is written only in a run in which the input  *)
(* file exists, both required columns are present, the filter yields at    *)
(* least one segment and the merge returns at least one record; it is      *)
(* written after filtering, analysis and merging, in that order, and holds *)
(* the merged records; a run that ends any other way has not written it.   *)
(***************************************************************************)
C9_OutputGating ==
    /\ outFile.written =>
          /\ fileExists
          /\ RequiredCols \subseteq fileColumns
          /\ Len(fsr_segments) >= 1
          /\ Len(merged_fsrs) >= 1
          /\ outFile.rows = merged_fsrs
          /\ log = <<"filter", "analyse", "merge", "save">>
          /\ result = "saved"
    /\ (pc = "done" /\ result # "saved") => outFile = NotWritten
    /\ (pc = "done" /\ result = "saved") => outFile.written

\* The file was written although a group failed.
C9_Witness ==
    /\ outFile.written
    /\ errors # <<>>
    /\ Len(outFile.rows) = 2

(***************************************************************************)
(* C10: every filtered row lies in exactly one group; when the loop is     *)
(* over, the original_segments of the output records add up to the number  *)
(* of filtered rows less the rows of the failed groups, no group key is on *)
(* two records, and whenever a summary is computed or an output written    *)
(* total_original is at least 1.                                           *)
(***************************************************************************)
C10_SegmentAccounting ==
    /\ \A i \in DOMAIN fsr_segments :
          Cardinality({k \in Range(GroupKeys(fsr_segments)) :
                          fsr_segments[i] \in Range(GroupOf(fsr_segments, k))}) = 1
    /\ segment_counts # {} =>
          /\ SumSeq([j \in DOMAIN GroupKeys(fsr_segments) |->
                       Len(GroupOf(fsr_segments, GroupKeys(fsr_segments)[j]))])
                = Len(fsr_segments)
          /\ \A c \in segment_counts :
                c[2] = Cardinality({i \in DOMAIN fsr_segments : fsr_segments[i].name = c[1]})
    /\ MergeFinished =>
          /\ SumSeq([i \in DOMAIN merged_fsrs |-> merged_fsrs[i].original_segments])
                = Len(fsr_segments)
                  - Cardinality({i \in DOMAIN fsr_segments :
                                    fsr_segments[i].name \in Range(errors)})
          /\ \A i \in DOMAIN merged_fsrs : \A j \in DOMAIN merged_fsrs :
                i # j => merged_fsrs[i].ROAD_NAME_FULL # merged_fsrs[j].ROAD_NAME_FULL
    /\ (pc = "save" \/ outFile.written) =>
          /\ summary.total_original >= 1
          /\ summary.total_original
                = SumSeq([i \in DOMAIN merged_fsrs |-> merged_fsrs[i].original_segments])

\* Three filtered rows in three states of the accounting: one in a failed
\* group, two in the one output record.
C10_Witness ==
    /\ MergeFinished
    /\ Len(fsr_segments) = 3
    /\ Len(errors) = 1
    /\ Len(merged_fsrs) = 1
    /\ merged_fsrs[1].original_segments = 2
    /\ summary.total_original = 2

====
